---- MODULE Spec2Model ----
(***************************************************************************)
(* Model of data_diff/sqeleton/databases/connect.py: the URI parameter     *)
(* matcher (MatchUriPath.match_path), the scheme dispatch of               *)
(* Connect.connect_to_uri, Connect.connect_with_dict and the cached entry  *)
(* point Connect.__call__.                                                 *)
(*                                                                         *)
(* Python dicts are modelled as sequences of <<key, value>> pairs in       *)
(* insertion order; Python's None is the value None below; a URI parameter *)
(* name "database?" is the record [name |-> "database", q |-> 1], q being  *)
(* the number of trailing "?" characters.                                  *)
(***************************************************************************)
EXTENDS Integers, Sequences, FiniteSets, TLC

VARIABLES schema, dsn, matched,
          db_conf, thread_count, outcome,
          conn_cache, conns, last, returned, frames

vars == <<schema, dsn, matched, db_conf, thread_count, outcome,
          conn_cache, conns, last, returned, frames>>

None == "<None>"

\* Python truthiness of a string-or-None value.
Truthy(v) == v # None /\ v # ""

----------------------------------------------------------------------------
(* dict operations *)

Keys(d) == {d[i][1] : i \in DOMAIN d}

Has(d, k) == \E i \in DOMAIN d : d[i][1] = k

Get(d, k) == d[CHOOSE i \in DOMAIN d : d[i][1] = k][2]

\* d[k] = v: replaces the value in place when k is present, appends otherwise.
Put(d, k, v) ==
    IF Has(d, k)
    THEN [i \in DOMAIN d |-> IF d[i][1] = k THEN <<k, v>> ELSE d[i]]
    ELSE Append(d, <<k, v>>)

\* d without the entry for k (the dict after d.pop(k)).
Del(d, k) == SelectSeq(d, LAMBDA e : e[1] # k)

RECURSIVE Update(_, _, _)
\* d.update(other), entry i onwards.
Update(d, other, i) ==
    IF i > Len(other) THEN d
    ELSE Update(Put(d, other[i][1], other[i][2]), other, i + 1)

\* {k: v for k, v in kw.items() if v is not None}
DropNone(kw) == SelectSeq(kw, LAMBDA e : e[2] # None)

----------------------------------------------------------------------------
(* MatchUriPath.match_path *)

NoParam == [name |-> None, q |-> 0]

endswith_q(param) == param.q > 0

rstrip_q(param) == param.name

Max(a, b) == IF a >= b THEN a ELSE b

Min(a, b) == IF a <= b THEN a ELSE b

\* zip(params, paths): stops at the shorter sequence.
Zip(params, paths) ==
    [i \in 1..Min(Len(params), Len(paths)) |-> <<params[i], paths[i]>>]

\* zip_longest(params, paths): the shorter sequence is filled with None.
ZipLongest(params, paths) ==
    [i \in 1..Max(Len(params), Len(paths)) |->
        <<IF i <= Len(params) THEN params[i] ELSE NoParam,
          IF i <= Len(paths) THEN paths[i] ELSE None>>]

Raise(kind, key) == [err |-> kind, key |-> key, matches |-> <<>>, dsn_dict |-> <<>>]

Going(dd, matches) == [err |-> "", key |-> None, matches |-> matches, dsn_dict |-> dd]

\* A declared optional parameter absent from the path and the query is dropped.
AbsentOptionalDropped(dd, matches, name) == Going(dd, matches)

\* Lines 53-60: the parameter is in neither the path nor the query, and optional.
AbsentOptional(dd, matches, name) ==
    IF name # "" /\ ~Has(matches, name)
    THEN Going(dd, Put(matches, name, None))
    ELSE Raise("AssertionError", name)

\* Lines 47-60: one iteration of the positional loop, param not None.
Positional(param, arg, dd, matches) ==
    LET optional == endswith_q(param)
        name == rstrip_q(param)
    IN  IF arg = None
        THEN IF Has(dd, name)
             THEN IF name # "" /\ ~Has(matches, name)
                  THEN Going(Del(dd, name), Put(matches, name, Get(dd, name)))
                  ELSE Raise("AssertionError", name)
             ELSE IF ~optional
                  THEN Raise("MissingParam", name)
                  ELSE AbsentOptional(dd, matches, name)
        ELSE IF name # "" /\ ~Has(matches, name)
             THEN Going(dd, Put(matches, name, arg))
             ELSE Raise("AssertionError", name)

RECURSIVE PositionalLoop(_, _, _, _)
\* Lines 43-60.
PositionalLoop(pairs, i, dd, matches) ==
    IF i > Len(pairs) THEN Going(dd, matches)
    ELSE IF pairs[i][1] = NoParam
         THEN Raise("TooManyParts", None)
         ELSE LET r == Positional(pairs[i][1], pairs[i][2], dd, matches)
              IN  IF r.err # "" THEN r
                  ELSE PositionalLoop(pairs, i + 1, r.dsn_dict, r.matches)

RECURSIVE KeywordLoop(_, _, _, _)
\* Lines 62-69.
KeywordLoop(kwparams, i, dd, matches) ==
    IF i > Len(kwparams) THEN Going(dd, matches)
    ELSE LET param == kwparams[i]
         IN  IF ~Has(dd, param)
             THEN Raise("MissingParam", param)
             ELSE IF param # "" /\ Truthy(Get(dd, param)) /\ ~Has(matches, param)
                  THEN KeywordLoop(kwparams, i + 1, Del(dd, param),
                                   Put(matches, param, Get(dd, param)))
                  ELSE Raise("AssertionError", param)

RECURSIVE RestLoopOverwrite(_, _, _)
\* The merge of the remaining query entries without the membership test.
RestLoopOverwrite(dd, i, matches) ==
    IF i > Len(dd) THEN Going(dd, matches)
    ELSE RestLoopOverwrite(dd, i + 1, Put(matches, dd[i][1], dd[i][2]))

RECURSIVE RestLoop(_, _, _)
\* Lines 71-77.
RestLoop(dd, i, matches) ==
    IF i > Len(dd) THEN Going(dd, matches)
    ELSE IF Has(matches, dd[i][1])
         THEN Raise("Collision", dd[i][1])
         ELSE RestLoop(dd, i + 1, Put(matches, dd[i][1], dd[i][2]))

\* Lines 40-79: [err, key, matches]; err = "" when a mapping is returned.
match_path(sch, d) ==
    LET p == PositionalLoop(ZipLongest(sch.params, d.paths), 1, d.query, <<>>)
    IN  IF p.err # "" THEN p
        ELSE LET k == KeywordLoop(sch.kwparams, 1, p.dsn_dict, p.matches)
             IN  IF k.err # "" THEN k
                 ELSE RestLoop(k.dsn_dict, 1, k.matches)

----------------------------------------------------------------------------
(* The driver registry *)

DATABASE_BY_SCHEME ==
    {"postgresql", "mysql", "oracle", "redshift", "snowflake", "presto",
     "bigquery", "databricks", "duckdb", "trino", "clickhouse", "vertica"}

Req(n) == [name |-> n, q |-> 0]

Opt(n) == [name |-> n, q |-> 1]

\* The positional URI parameters each driver class declares.
CONNECT_URI_PARAMS(scheme) ==
    CASE scheme = "mysql" -> <<Req("database")>>
      [] scheme = "snowflake" -> <<Req("database"), Req("schema")>>
      [] scheme \in {"presto", "trino", "databricks"} ->
            <<Req("catalog"), Req("schema")>>
      [] scheme = "bigquery" -> <<Req("dataset")>>
      [] scheme = "duckdb" -> <<Req("database"), Req("dbname")>>
      [] OTHER -> <<Opt("database")>>

\* The query-only URI parameters each driver class declares.
CONNECT_URI_KWPARAMS(scheme) ==
    IF scheme = "snowflake" THEN <<"warehouse">> ELSE <<>>

\* issubclass(cls, ThreadedDatabase)
IsThreadedDatabase(scheme) ==
    scheme \notin {"snowflake", "bigquery", "databricks", "presto", "trino"}

\* Lines 103-106: self.match_uri_path[name]
match_uri_path(name) ==
    [params |-> CONNECT_URI_PARAMS(name), kwparams |-> CONNECT_URI_KWPARAMS(name)]

----------------------------------------------------------------------------
(* Connect.connect_to_uri and Connect.connect_with_dict *)

Unset == "<unset>"

\* An exception leaves the call before any driver constructor runs.
Failure(kind, key) ==
    [kind |-> kind, key |-> key, called |-> FALSE, cls |-> None,
     kw |-> <<>>, tc |-> Unset, hook |-> FALSE]

\* cls(**kw) or cls(thread_count=tc, **kw); ok is whether the driver's
\* constructor returns or raises; hook is whether _connection_created follows.
Construct(cls, kw, tc, ok, hook) ==
    [kind |-> IF ok THEN "ok" ELSE "DriverError", key |-> None, called |-> TRUE,
     cls |-> cls, kw |-> kw, tc |-> tc, hook |-> hook /\ ok]

\* dsn.path and dsn.dbname of the tokenizer, as opaque strings.
DsnPath(d) == IF d.paths = <<>> THEN "" ELSE "/path"

DsnDbname(d) == IF d.paths = <<>> THEN "" ELSE "path"

\* Lines 180-185.
CreateDb(cls, kw, tc, ok) ==
    Construct(cls, kw, IF IsThreadedDatabase(cls) THEN tc ELSE Unset, ok, TRUE)

\* Lines 160-176: the schemes that go through the matcher.
MatchedScheme(scheme, d, tc, ok) ==
    LET m == match_path(match_uri_path(scheme), d)
        kw == m.matches
    IN  IF m.err # "" THEN Failure(m.err, m.key)
        ELSE IF scheme = "bigquery"
             THEN Construct(scheme, Put(kw, "project", d.host), Unset, ok, FALSE)
        ELSE IF scheme = "snowflake"
             THEN IF Truthy(d.port) THEN Failure("AssertionError", "port")
                  ELSE CreateDb(scheme,
                         DropNone(Put(Put(Put(kw, "account", d.host),
                                          "user", d.user),
                                      "password", d.password)),
                         tc, ok)
        ELSE LET k3 == Put(Put(Put(kw, "host", d.host), "port", d.port),
                           "user", d.user)
                 k4 == IF Truthy(d.password)
                       THEN Put(k3, "password", d.password) ELSE k3
             IN  CreateDb(scheme, DropNone(k4), tc, ok)

\* Lines 136-185.
connect_to_uri(d, tc, ok) ==
    IF Len(d.schemes) > 1 THEN Failure("MultipleSchemes", None)
    ELSE IF Len(d.schemes) # 1 THEN Failure("UnpackError", None)
    ELSE LET scheme == d.schemes[1]
         IN  IF scheme \notin DATABASE_BY_SCHEME
             THEN Failure("UnsupportedScheme", scheme)
             ELSE IF scheme = "databricks"
                  THEN IF Truthy(d.user) THEN Failure("AssertionError", "user")
                       ELSE CreateDb(scheme,
                              DropNone(Update(<<<<"access_token", d.password>>,
                                                <<"http_path", DsnPath(d)>>,
                                                <<"server_hostname", d.host>>>>,
                                              d.query, 1)),
                              tc, ok)
             ELSE IF scheme = "duckdb"
                  THEN CreateDb(scheme,
                         DropNone(<<<<"filepath", DsnDbname(d)>>,
                                    <<"dbname", d.user>>>>),
                         tc, ok)
             ELSE MatchedScheme(scheme, d, tc, ok)

\* Lines 187-201.
connect_with_dict(d, tc, ok) ==
    IF ~Has(d, "driver") THEN Failure("KeyError", "driver")
    ELSE LET driver == Get(d, "driver")
         IN  IF driver \notin DATABASE_BY_SCHEME
             THEN Failure("UnsupportedDriver", driver)
             ELSE CreateDb(driver, Del(d, "driver"), tc, ok)

\* Lines 249-254: a request is [type, dsn, d]; a URI string stands for its
\* tokenization dsn, a dict for its items d.
Dispatch(conf, tc, ok) ==
    IF conf.type = "str" THEN connect_to_uri(conf.dsn, tc, ok)
    ELSE IF conf.type = "dict" THEN connect_with_dict(conf.d, tc, ok)
    ELSE Failure("TypeError", None)

----------------------------------------------------------------------------
(* Bounded inputs *)

MaxParams == 2
MaxPaths == 3
MaxQuery == 2

SeqsUpTo(S, n) == UNION {[1..k -> S] : k \in 0..n}

\* No name is declared twice (line 59 asserts it while matching).
DistinctNames(ps) == \A i, j \in DOMAIN ps : i # j => ps[i].name # ps[j].name

\* A dict holds each key once.
DistinctKeys(d) == \A i, j \in DOMAIN d : i # j => d[i][1] # d[j][1]

PNames == {"database", "schema"}
KwNames == {"warehouse"}
QNames == {"database", "schema", "warehouse", "sslmode"}
QVals == {"v", ""}
Segments == {"a", "b"}

ParamLists ==
    {ps \in SeqsUpTo([name : PNames, q : {0, 1}], MaxParams) :
        DistinctNames(ps)}

Schemas == [params : ParamLists, kwparams : SeqsUpTo(KwNames, 1)]

PathLists == SeqsUpTo(Segments, MaxPaths)

QueryOver(names) ==
    {q \in SeqsUpTo(names \X QVals, MaxQuery) : DistinctKeys(q)}

NoDsn == [schemes |-> <<>>, host |-> None, port |-> None, user |-> None,
          password |-> None, paths |-> <<>>, query |-> <<>>]

NotRun == [err |-> "notrun", key |-> None, matches |-> <<>>, dsn_dict |-> <<>>]


----------------------------------------------------------------------------
(* Checking match_path on its own: one schema, one tokenized request. *)

InitMatch ==
    /\ schema \in Schemas
    /\ dsn \in [schemes : {<<"mysql">>}, host : {"h"}, port : {None},
                user : {None}, password : {None},
                paths : PathLists, query : QueryOver(QNames)]
    /\ matched = NotRun
    /\ db_conf = None /\ thread_count = None /\ outcome = None
    /\ conn_cache = <<>> /\ conns = <<>> /\ last = None /\ returned = <<>>
    /\ frames = <<>>

MatchStep ==
    /\ matched = NotRun
    /\ matched' = match_path(schema, dsn)
    /\ UNCHANGED <<schema, dsn, db_conf, thread_count, outcome,
                   conn_cache, conns, last, returned, frames>>

NextMatch == MatchStep

SpecMatch == InitMatch /\ [][NextMatch]_vars


----------------------------------------------------------------------------
(* Properties of match_path, checked under SpecMatch *)

Ran == matched # NotRun

Count(d, k) == Cardinality({i \in DOMAIN d : d[i][1] = k})

\* Names of the positional parameters that take their value from a path segment.
FromPath ==
    {schema.params[i].name : i \in 1..Min(Len(schema.params), Len(dsn.paths))}

\* Positional parameters with no path segment.
Unpaired == {i \in DOMAIN schema.params : i > Len(dsn.paths)}

TooManySegments == Len(dsn.paths) > Len(schema.params)

MissingPositional ==
    \E i \in Unpaired :
        schema.params[i].q = 0 /\ ~Has(dsn.query, schema.params[i].name)

KeywordUnusable ==
    \E i \in DOMAIN schema.kwparams :
        \/ ~Has(dsn.query, schema.kwparams[i])
        \/ ~Truthy(Get(dsn.query, schema.kwparams[i]))

\* The first query entry, in query order, whose name was taken from the path.
FirstColliding ==
    dsn.query[CHOOSE i \in DOMAIN dsn.query :
                 /\ dsn.query[i][1] \in FromPath
                 /\ \A j \in 1..(i - 1) : dsn.query[j][1] \notin FromPath][1]

\* C4 as stated: a positional parameter supplied by a path segment and again
\* as a query entry always makes matching fail with the collision error
\* naming that key.
C4_CollisionAlwaysReported ==
    \A n \in FromPath :
        (Ran /\ Has(dsn.query, n)) =>
            (matched.err = "Collision" /\ matched.key = n)

\* C4 amended: such a request never yields a mapping; it fails with the
\* collision error naming the first colliding query key, unless an earlier
\* step fails first (too many path segments, a required positional or keyword
\* parameter missing, or a keyword parameter with an empty value).
C4_CollisionUnlessEarlierFailure ==
    (Ran /\ FromPath \cap Keys(dsn.query) # {}) =>
        /\ matched.err # ""
        /\ IF TooManySegments THEN matched.err = "TooManyParts"
           ELSE IF MissingPositional THEN matched.err = "MissingParam"
           ELSE IF KeywordUnusable
                THEN matched.err \in {"MissingParam", "AssertionError"}
           ELSE matched.err = "Collision" /\ matched.key = FirstColliding

C4_Witness ==
    /\ Ran
    /\ Cardinality(FromPath \cap Keys(dsn.query)) = 2
    /\ matched.err = "Collision"
    /\ matched.key = dsn.query[1][1]

\* C6: more path segments than declared positional names always fails with
\* the too-many-segments error, whatever the query map holds.
C6_TooManySegmentsRejected ==
    (Ran /\ TooManySegments) =>
        (matched.err = "TooManyParts" /\ matched.matches = <<>>)

C6_Witness ==
    /\ Ran /\ TooManySegments
    /\ Len(schema.params) > 0
    /\ Len(schema.kwparams) > 0 /\ ~Has(dsn.query, schema.kwparams[1])
    /\ FromPath \cap Keys(dsn.query) # {}
    /\ matched.err = "TooManyParts"

\* C7: a returned mapping holds every declared positional and keyword name
\* exactly once, every required name with the value supplied for it, and an
\* optional positional name supplied nowhere mapped to None.
C7_ResultComplete ==
    (Ran /\ matched.err = "") =>
        /\ \A i \in DOMAIN schema.params :
              LET n == schema.params[i].name
              IN  /\ Count(matched.matches, n) = 1
                  /\ i <= Len(dsn.paths) => Get(matched.matches, n) = dsn.paths[i]
                  /\ (i > Len(dsn.paths) /\ Has(dsn.query, n)) =>
                        Get(matched.matches, n) = Get(dsn.query, n)
                  /\ schema.params[i].q = 0 => Get(matched.matches, n) # None
                  /\ (i > Len(dsn.paths) /\ ~Has(dsn.query, n)) =>
                        (schema.params[i].q > 0 /\ Get(matched.matches, n) = None)
        /\ \A i \in DOMAIN schema.kwparams :
              LET n == schema.kwparams[i]
              IN  /\ Count(matched.matches, n) = 1
                  /\ Has(dsn.query, n)
                  /\ Get(matched.matches, n) = Get(dsn.query, n)
                  /\ Get(matched.matches, n) # None

C7_Witness ==
    /\ Ran /\ matched.err = ""
    /\ Len(schema.params) = 2 /\ Len(dsn.paths) = 1
    /\ schema.params[1].q = 0 /\ schema.params[2].q > 0
    /\ Len(schema.kwparams) = 1
    /\ ~Has(dsn.query, schema.params[2].name)
    /\ Get(matched.matches, schema.params[2].name) = None


----------------------------------------------------------------------------
(* Checking one resolution without the cache: one request, one outcome. *)

MaxDict == 2

UriQNames == {"host", "user", "warehouse"}

SchemeLists ==
    {<<"mysql">>, <<"snowflake">>, <<"bigquery">>, <<"databricks">>,
     <<"duckdb">>, <<"ftp">>, <<"mysql", "pymysql">>}

UriDsns ==
    [schemes : SchemeLists, host : {None, "h"}, port : {None, "443"},
     user : {None, "u"}, password : {None, "pw"},
     paths : SeqsUpTo({"a"}, MaxPaths), query : QueryOver(UriQNames)]

DictKeys == {"driver", "host", "database"}

DictVals(k) == IF k = "driver" THEN {"mysql", "bigquery", "ftp"} ELSE {"h", None}

DictItems ==
    {d \in SeqsUpTo(UNION {{<<k, v>> : v \in DictVals(k)} : k \in DictKeys}, MaxDict) :
        DistinctKeys(d)}

StrConf(d) == [type |-> "str", dsn |-> d, d |-> <<>>]

DictConf(items) == [type |-> "dict", dsn |-> NoDsn, d |-> items]

OtherConf == [type |-> "other", dsn |-> NoDsn, d |-> <<>>]

ThreadCounts == {"1", None}

NotResolved == Failure("notrun", None)

InitUri ==
    /\ db_conf \in {StrConf(d) : d \in UriDsns}
                     \cup {DictConf(i) : i \in DictItems} \cup {OtherConf}
    /\ thread_count \in ThreadCounts
    /\ outcome = NotResolved
    /\ schema = None /\ dsn = None /\ matched = NotRun
    /\ conn_cache = <<>> /\ conns = <<>> /\ last = None /\ returned = <<>>
    /\ frames = <<>>

ResolveStep ==
    /\ outcome = NotResolved
    /\ \E ok \in BOOLEAN : outcome' = Dispatch(db_conf, thread_count, ok)
    /\ UNCHANGED <<schema, dsn, matched, db_conf, thread_count,
                   conn_cache, conns, last, returned, frames>>

NextUri == ResolveStep

SpecUri == InitUri /\ [][NextUri]_vars

Resolved == outcome # NotResolved

\* The names connect_to_uri derives from the URI itself, per scheme.
Derived(d) ==
    LET scheme == d.schemes[1]
    IN  CASE scheme = "databricks" -> {"access_token", "http_path", "server_hostname"}
          [] scheme = "duckdb" -> {}
          [] scheme = "bigquery" -> {"project"}
          [] scheme = "snowflake" -> {"account", "user", "password"}
          [] OTHER -> {"host", "port", "user"}
                        \cup (IF Truthy(d.password) THEN {"password"} ELSE {})

\* C5: a name derived from the URI and also given as a query entry makes
\* resolution fail; the constructor is never reached with one of the two
\* values silently replaced by the other.
C5_NoSilentOverwrite ==
    (Resolved /\ db_conf.type = "str" /\ outcome.called) =>
        Derived(db_conf.dsn) \cap Keys(db_conf.dsn.query) = {}

Taxonomy ==
    {"MultipleSchemes", "UnsupportedScheme", "UnsupportedDriver", "MissingParam",
     "KeyError", "TooManyParts", "Collision", "TypeError", "DriverError"}

\* C8: a resolution returns a connection or fails with an error of the
\* taxonomy, never with an assertion or unpacking failure.
C8_OnlyTaxonomyErrors ==
    Resolved => (outcome.kind = "ok" \/ outcome.kind \in Taxonomy)

\* C9: no driver constructor is ever called with a named parameter whose
\* value is None.
C9_NoNoneReachesConstructor ==
    (Resolved /\ outcome.called) =>
        \A i \in DOMAIN outcome.kw : outcome.kw[i][2] # None


----------------------------------------------------------------------------
(* Connect.__call__ and the connection cache *)

MaxConns == 2
MaxCalls == 3

\* Connections are numbered 1..conns.n in order of construction; 0 is no
\* connection. closed: is_closed is true. dead: no strong reference is left.
NoConns == [n |-> 0, closed |-> {}, dead |-> {}]

GoodUri ==
    StrConf([schemes |-> <<"mysql">>, host |-> "h", port |-> None, user |-> "u",
             password |-> "pw", paths |-> <<"a">>, query |-> <<>>])

OtherGoodUri ==
    StrConf([schemes |-> <<"mysql">>, host |-> "h", port |-> None, user |-> "u",
             password |-> "pw", paths |-> <<"b">>, query |-> <<>>])

BadUri ==
    StrConf([schemes |-> <<"ftp">>, host |-> "h", port |-> None, user |-> None,
             password |-> None, paths |-> <<>>, query |-> <<>>])

GoodDict == DictConf(<<<<"driver", "mysql">>, <<"host", "h">>>>)

Confs == {GoodUri, OtherGoodUri, BadUri, GoodDict, OtherConf}

\* WeakCache(): no entries.
EmptyCache == [k \in Confs |-> 0]

\* WeakCache.get: the connection stored under key, 0 (KeyError) when there is
\* no entry or the connection it referred to is gone.
CacheGet(cache, cs, key) ==
    IF cache[key] # 0 /\ cache[key] \notin cs.dead THEN cache[key] ELSE 0

\* WeakCache.add
CacheAdd(cache, key, c) == [cache EXCEPT ![key] = c]

\* A lookup that never finds the cached connection.
LookupAlwaysMiss(cache, cs, conf, shared) == 0

\* A lookup without the is_closed test.
LookupIgnoringClosed(cache, cs, conf, shared) ==
    IF shared THEN CacheGet(cache, cs, conf) ELSE 0

\* Lines 243-247: the connection returned at once, 0 to fall through.
Lookup(cache, cs, conf, shared) ==
    IF shared
    THEN LET conn == CacheGet(cache, cs, conf)
         IN  IF conn # 0 /\ conn \notin cs.closed THEN conn ELSE 0
    ELSE 0

\* A store that ignores the shared flag.
StoreUnconditional(cache, conf, shared, conn) == CacheAdd(cache, conf, conn)

\* Lines 256-257.
Store(cache, conf, shared, conn) ==
    IF shared THEN CacheAdd(cache, conf, conn) ELSE cache

NoCall ==
    [seq |-> 0, conf |-> OtherConf, shared |-> FALSE, kind |-> "", conn |-> 0,
     built |-> FALSE, found |-> 0, found_closed |-> FALSE,
     prev |-> 0, prev_live |-> FALSE]

\* What one call did: its arguments, its result (kind, conn), whether a
\* driver constructor ran (built), the connection cached under its request
\* when it started (found, for a shared call) and whether that was closed,
\* and the connection the previous successful shared call with this request
\* returned (prev), with whether it is still open and referenced.
CallRecord(conf, shared, kind, conn, built) ==
    [seq |-> last.seq + 1, conf |-> conf, shared |-> shared, kind |-> kind,
     conn |-> conn, built |-> built,
     found |-> IF shared THEN conn_cache[conf] ELSE 0,
     found_closed |-> shared /\ conn_cache[conf] \in conns.closed,
     prev |-> returned[conf],
     prev_live |-> returned[conf] # 0 /\ returned[conf] \notin conns.closed
                     /\ returned[conf] \notin conns.dead]

Init ==
    /\ conn_cache = EmptyCache
    /\ conns = NoConns
    /\ last = NoCall
    /\ returned = [k \in Confs |-> 0]
    /\ frames = <<>>
    /\ schema = None /\ dsn = None /\ matched = NotRun
    /\ db_conf = None /\ thread_count = None /\ outcome = NotResolved

\* Lines 243-258, run to completion: connect(conf, thread_count=tc, shared=shared).
Call(conf, shared, tc, ok) ==
    /\ last.seq < MaxCalls
    /\ LET hit == Lookup(conn_cache, conns, conf, shared)
           out == Dispatch(conf, tc, ok)
           new == conns.n + 1
       IN  IF hit # 0
           THEN /\ last' = CallRecord(conf, shared, "ok", hit, FALSE)
                /\ returned' = [returned EXCEPT ![conf] = hit]
                /\ UNCHANGED <<conn_cache, conns>>
           ELSE IF out.kind = "ok"
           THEN /\ conns.n < MaxConns
                /\ conns' = [conns EXCEPT !.n = new]
                /\ conn_cache' = Store(conn_cache, conf, shared, new)
                /\ last' = CallRecord(conf, shared, "ok", new, TRUE)
                /\ returned' = IF shared THEN [returned EXCEPT ![conf] = new]
                               ELSE returned
           ELSE /\ last' = CallRecord(conf, shared, out.kind, 0, out.called)
                /\ UNCHANGED <<conn_cache, conns, returned>>
    /\ UNCHANGED <<schema, dsn, matched, db_conf, thread_count, outcome, frames>>

\* The owner of connection c closes it.
Close(c) ==
    /\ c \in 1..conns.n /\ c \notin conns.closed /\ c \notin conns.dead
    /\ conns' = [conns EXCEPT !.closed = @ \cup {c}]
    /\ UNCHANGED <<schema, dsn, matched, db_conf, thread_count, outcome,
                   conn_cache, last, returned, frames>>

\* The last strong reference to connection c goes away; weak references to
\* it are dead from now on.
Collect(c) ==
    /\ c \in 1..conns.n /\ c \notin conns.dead
    /\ conns' = [conns EXCEPT !.dead = @ \cup {c}]
    /\ UNCHANGED <<schema, dsn, matched, db_conf, thread_count, outcome,
                   conn_cache, last, returned, frames>>

Next ==
    \/ \E conf \in Confs, shared \in BOOLEAN, tc \in ThreadCounts, ok \in BOOLEAN :
          Call(conf, shared, tc, ok)
    \/ \E c \in 1..MaxConns : Close(c)
    \/ \E c \in 1..MaxConns : Collect(c)

Spec == Init /\ [][Next]_vars


----------------------------------------------------------------------------
(* Properties of the cached entry point, checked under Spec *)

\* C1: a shared call with a URI for which the previous successful shared
\* call returned a connection that is still referenced and open returns that
\* same connection and runs no driver constructor.
C1_SharedCallReusesConnection ==
    (last.seq > 0 /\ last.shared /\ last.conf.type = "str"
        /\ last.prev # 0 /\ last.prev_live) =>
        (last.kind = "ok" /\ last.conn = last.prev /\ ~last.built)

C1_Witness ==
    /\ last.seq = 2 /\ last.shared /\ last.conf = GoodUri
    /\ last.prev = 1 /\ last.prev_live
    /\ last.conn = 1 /\ conns.n = 1

\* C2: a shared call that finds a closed connection cached under its key
\* runs the driver constructor and never returns the closed connection; when
\* construction succeeds it returns the new connection and the cache entry for
\* the key holds it. No shared call returns a connection that was closed when
\* it was looked up.
C2_ClosedEntryIsRebuilt ==
    /\ (last.seq > 0 /\ last.shared /\ last.found # 0 /\ last.found_closed) =>
          /\ last.built
          /\ last.conn # last.found
          /\ last.kind = "ok" =>
                (last.conn > last.found /\ conn_cache[last.conf] = last.conn)
    /\ (last.seq > 0 /\ last.shared /\ last.kind = "ok" /\ last.conn = last.found) =>
          ~last.found_closed

C2_Witness ==
    /\ last.shared /\ last.conf = GoodUri
    /\ last.found = 1 /\ last.found_closed
    /\ last.kind = "ok" /\ last.conn = 2 /\ conn_cache[GoodUri] = 2

\* C10: a call changes the cache only if it is shared and succeeds, and then
\* exactly the entry of its request, which now holds the returned connection;
\* every other step leaves the cache as it is.
C10_CacheFrame ==
    [][IF last'.seq # last.seq /\ last'.shared /\ last'.kind = "ok"
       THEN conn_cache' = [conn_cache EXCEPT ![last'.conf] = last'.conn]
       ELSE conn_cache' = conn_cache]_vars

C10_Witness ==
    /\ last.seq = 3 /\ ~last.shared /\ last.kind = "ok" /\ last.conf = GoodUri
    /\ last.conn = 2 /\ conn_cache[GoodUri] = 1
    /\ conn_cache[GoodDict] = 0


----------------------------------------------------------------------------
(* Concurrent callers of Connect.__call__: each thread runs lines 243-247,   *)
(* then 249-254 (the blocking construction), then 256-258, and other threads *)
(* may run between these.                                                    *)

MaxThreads == 2

Threads == 1..MaxThreads

ConcConfs == {GoodUri, BadUri, GoodDict}

IdleFrame ==
    [pc |-> "idle", conf |-> OtherConf, shared |-> FALSE, tc |-> None,
     conn |-> 0, kind |-> ""]

InitConc ==
    /\ frames = [t \in Threads |-> IdleFrame]
    /\ conn_cache = EmptyCache
    /\ conns = NoConns
    /\ last = NoCall
    /\ returned = [k \in Confs |-> 0]
    /\ schema = None /\ dsn = None /\ matched = NotRun
    /\ db_conf = None /\ thread_count = None /\ outcome = NotResolved

Others == <<schema, dsn, matched, db_conf, thread_count, outcome, last, returned>>

\* Thread t calls connect(conf, thread_count=tc, shared=shared).
Enter(t, conf, shared, tc) ==
    /\ frames[t] = IdleFrame
    /\ frames' = [frames EXCEPT ![t] =
                    [pc |-> "lookup", conf |-> conf, shared |-> shared,
                     tc |-> tc, conn |-> 0, kind |-> ""]]
    /\ UNCHANGED <<conn_cache, conns>>
    /\ UNCHANGED Others

\* Lines 243-247.
LookupStep(t) ==
    /\ frames[t].pc = "lookup"
    /\ LET hit == Lookup(conn_cache, conns, frames[t].conf, frames[t].shared)
       IN  frames' = [frames EXCEPT ![t] =
                        IF hit # 0
                        THEN [@ EXCEPT !.pc = "idle", !.conn = hit, !.kind = "ok"]
                        ELSE [@ EXCEPT !.pc = "connect"]]
    /\ UNCHANGED <<conn_cache, conns>>
    /\ UNCHANGED Others

\* Lines 249-254.
ConnectStep(t, ok) ==
    /\ frames[t].pc = "connect"
    /\ LET out == Dispatch(frames[t].conf, frames[t].tc, ok)
       IN  IF out.kind = "ok"
           THEN /\ conns.n < MaxConns
                /\ conns' = [conns EXCEPT !.n = @ + 1]
                /\ frames' = [frames EXCEPT ![t] =
                                [@ EXCEPT !.pc = "store", !.conn = conns.n + 1]]
           ELSE /\ frames' = [frames EXCEPT ![t] =
                                [@ EXCEPT !.pc = "idle", !.kind = out.kind]]
                /\ UNCHANGED conns
    /\ UNCHANGED conn_cache
    /\ UNCHANGED Others

\* Lines 256-258.
StoreStep(t) ==
    /\ frames[t].pc = "store"
    /\ conn_cache' = Store(conn_cache, frames[t].conf, frames[t].shared, frames[t].conn)
    /\ frames' = [frames EXCEPT ![t] = [@ EXCEPT !.pc = "idle", !.kind = "ok"]]
    /\ UNCHANGED conns
    /\ UNCHANGED Others

\* Thread t closes the connection its call returned.
CloseHeld(t) ==
    /\ frames[t].pc = "idle" /\ frames[t].conn # 0
    /\ frames[t].conn \notin conns.closed
    /\ conns' = [conns EXCEPT !.closed = @ \cup {frames[t].conn}]
    /\ UNCHANGED <<frames, conn_cache>>
    /\ UNCHANGED Others

\* Thread t drops the result of its call; a connection no thread refers to
\* any more is collected.
Forget(t) ==
    /\ frames[t].pc = "idle" /\ frames[t] # IdleFrame
    /\ frames' = [frames EXCEPT ![t] = IdleFrame]
    /\ conns' = IF frames[t].conn # 0
                   /\ \A u \in Threads \ {t} : frames[u].conn # frames[t].conn
                THEN [conns EXCEPT !.dead = @ \cup {frames[t].conn}]
                ELSE conns
    /\ UNCHANGED conn_cache
    /\ UNCHANGED Others

NextConc ==
    \/ \E t \in Threads, conf \in ConcConfs, shared \in BOOLEAN, tc \in ThreadCounts :
          Enter(t, conf, shared, tc)
    \/ \E t \in Threads : LookupStep(t)
    \/ \E t \in Threads, ok \in BOOLEAN : ConnectStep(t, ok)
    \/ \E t \in Threads : StoreStep(t)
    \/ \E t \in Threads : CloseHeld(t)
    \/ \E t \in Threads : Forget(t)

SpecConc == InitConc /\ [][NextConc]_vars

\* C3: two callers that resolved the same request with shared=true and hold
\* open connections hold the same connection: it never happens that both
\* missed the cache, both constructed and both stored.
C3_OneLiveConnectionPerKey ==
    \A t, u \in Threads :
        (/\ frames[t].pc = "idle" /\ frames[u].pc = "idle"
         /\ frames[t].shared /\ frames[u].shared
         /\ frames[t].conf = frames[u].conf
         /\ frames[t].conn # 0 /\ frames[u].conn # 0
         /\ frames[t].conn \notin conns.closed
         /\ frames[u].conn \notin conns.closed)
        => frames[t].conn = frames[u].conn

====
